---- MODULE Spec2Model ----
(***************************************************************************)
(* python_blackbox: Python-level blocking of outbound network access.      *)
(*                                                                         *)
(* The module state (_BLOCKED, _ORIG, _WHITELIST, _DEBUG), the attributes  *)
(* of socket / urllib.request / http.client / requests that block_network  *)
(* patches, the host matcher _host_allowed and the intercepting hooks.     *)
(*                                                                         *)
(* A Python str is modelled as the sequence of its characters, so that     *)
(* lower(), split(":", 1), endswith() and "in" are computed and not        *)
(* assumed.  None is the one-element sequence <<"None">>, which no str of  *)
(* single characters equals.                                               *)
(***************************************************************************)
EXTENDS Naturals, Sequences, FiniteSets

VARIABLES
    _BLOCKED,     \* python_blackbox._BLOCKED
    _ORIG,        \* python_blackbox._ORIG: dict, key -> saved handle
    _WHITELIST,   \* python_blackbox._WHITELIST: set of str
    _DEBUG,       \* python_blackbox._DEBUG
    requests,     \* the name `requests` of the module: "module" or "None"
    bound,        \* the patched attributes: entry point -> handle bound to it
    frames,       \* the open allow_temporary blocks, outermost first:
                  \* the was_blocked local of each generator frame
    touched,      \* how many of the open blocks (counted from the outermost)
                  \* have had block_network / allow_network called by the
                  \* code of the with-body since they were entered
    obs,          \* what the most recent operation was and what the caller saw
    threads       \* for the programs with several threads: each thread's
                  \* position and locals (empty in the one-thread program)

vars == <<_BLOCKED, _ORIG, _WHITELIST, _DEBUG, requests, bound, frames, touched, obs,
          threads>>

(***************************************************************************)
(* Bounds of the model.                                                    *)
(***************************************************************************)
\* allow_temporary blocks nested at most this deep
MaxDepth == 2
\* at most this many entries in _WHITELIST
MaxWhitelist == 1

(***************************************************************************)
(* Python str operations, on sequences of characters.                      *)
(***************************************************************************)
None == <<"None">>

UpperChars == <<"A","B","C","D","E","F","G","H","I","J","K","L","M",
                "N","O","P","Q","R","S","T","U","V","W","X","Y","Z">>
LowerChars == <<"a","b","c","d","e","f","g","h","i","j","k","l","m",
                "n","o","p","q","r","s","t","u","v","w","x","y","z">>

\* one character of str.lower()
lower_char(c) ==
    IF \E i \in 1..Len(UpperChars) : UpperChars[i] = c
    THEN LowerChars[CHOOSE i \in 1..Len(UpperChars) : UpperChars[i] = c]
    ELSE c

\* s.lower()
lower(s) == [i \in 1..Len(s) |-> lower_char(s[i])]

\* c in s, for a one-character c
contains(s, c) == \E i \in 1..Len(s) : s[i] = c

\* s.find(c): the first index of c (1-based), 0 when absent
find(s, c) ==
    IF contains(s, c)
    THEN CHOOSE i \in 1..Len(s) : s[i] = c /\ \A j \in 1..(i - 1) : s[j] # c
    ELSE 0

\* s.rfind(c): the last index of c (1-based), 0 when absent
rfind(s, c) ==
    IF contains(s, c)
    THEN CHOOSE i \in 1..Len(s) : s[i] = c /\ \A j \in (i + 1)..Len(s) : s[j] # c
    ELSE 0

\* s.split(c, 1)[0] and s.partition(c)[0]: what precedes the first c, or all of s
before_first(s, c) ==
    IF contains(s, c) THEN SubSeq(s, 1, find(s, c) - 1) ELSE s

\* s.partition(c)[2]: what follows the first c, "" when c is absent
after_first(s, c) ==
    IF contains(s, c) THEN SubSeq(s, find(s, c) + 1, Len(s)) ELSE <<>>

\* s.rpartition(c)[2]: what follows the last c, or all of s
after_last(s, c) ==
    IF contains(s, c) THEN SubSeq(s, rfind(s, c) + 1, Len(s)) ELSE s

\* s.endswith(suffix)
endswith(s, suffix) ==
    /\ Len(suffix) <= Len(s)
    /\ SubSeq(s, Len(s) - Len(suffix) + 1, Len(s)) = suffix

(***************************************************************************)
(* The strings the operations are called with.                             *)
(***************************************************************************)
localhost      == <<"l","o","c","a","l","h","o","s","t">>
loopback4      == <<"1","2","7",".","0",".","0",".","1">>
loopback6      == <<":",":","1">>
example_com    == <<"e","x","a","m","p","l","e",".","c","o","m">>
Example_com    == <<"E","x","a","m","p","l","e",".","c","o","m">>
api_example    == <<"a","p","i",".">> \o example_com
API_Example    == <<"A","P","I",".">> \o Example_com
notexample_com == <<"n","o","t">> \o example_com
empty_str      == <<>>

\* the port suffixes ":8443" and ":80"
Ports == { <<"8","4","4","3">>, <<"8","0">> }
with_port(h, p) == h \o <<":">> \o p

\* host names without a colon
PlainHosts ==
    { localhost, loopback4, example_com, Example_com, api_example,
      API_Example, notexample_com, empty_str }

\* every str handed to _host_allowed directly
Hosts ==
    PlainHosts \cup { loopback6 }
        \cup { with_port(example_com, p) : p \in Ports }
        \cup { with_port(h, <<"8","4","4","3">>) : h \in { empty_str, API_Example, loopback4 } }

\* every str handed to add_whitelist / remove_whitelist
Entries == { example_com, Example_com, api_example, empty_str }

\* a urllib.request.Request object built on a URL (not a str)
Request(url) == <<"Request">> \o url

\* isinstance(x, str)
isinstance_str(x) == x # None /\ ~(Len(x) > 0 /\ x[1] = "Request")

(***************************************************************************)
(* _host_allowed, with the global _WHITELIST it reads as a parameter.      *)
(***************************************************************************)
\* a plausible slip: the port is not removed
_host_allowed_keep_port(host, whitelist) ==
    IF host = None \/ host = <<>>
    THEN FALSE
    ELSE LET h == lower(host)
         IN  \/ \E w \in whitelist : h = w \/ endswith(h, <<".">> \o w)
             \/ h \in { localhost, loopback4, loopback6 }

_host_allowed(host, whitelist) ==
    IF host = None \/ host = <<>>
    THEN FALSE
    ELSE LET stripped == IF contains(host, ":") THEN before_first(host, ":") ELSE host
             h == lower(stripped)
         IN  \/ \E w \in whitelist : h = w \/ endswith(h, <<".">> \o w)
             \/ h \in { localhost, loopback4, loopback6 }

(***************************************************************************)
(* urllib.parse.urlparse(url).hostname.  A URL is represented by its       *)
(* network location (the text between "//" and the next "/"), the only     *)
(* part hostname reads: user info up to the last "@" is dropped, a         *)
(* bracketed IPv6 literal is unwrapped, a ":port" is dropped, an empty     *)
(* host is None, and the host is lower-cased.                              *)
(***************************************************************************)
urlparse_hostname(netloc) ==
    LET hostinfo == after_last(netloc, "@")
        name == IF contains(hostinfo, "[")
                THEN before_first(after_first(hostinfo, "["), "]")
                ELSE before_first(hostinfo, ":")
    IN  IF name = <<>> THEN None ELSE lower(name)

(***************************************************************************)
(* The patched attributes and the handles bound to them.                   *)
(***************************************************************************)
K_socket   == "socket.socket"
K_create   == "socket.create_connection"
K_urlopen  == "urllib.request.urlopen"
K_http     == "http.client.HTTPConnection.connect"
K_ssl      == "ssl.SSLContext.wrap_socket"
K_requests == "requests.Session.request"

\* the attributes that exist, given what the name `requests` holds
Attributes(req) ==
    { K_socket, K_create, K_urlopen, K_http, K_ssl }
        \cup (IF req = "module" THEN { K_requests } ELSE {})

\* the implementation an attribute is bound to before any patching
Original(k) ==
    CASE k = K_socket   -> "original socket.socket"
      [] k = K_create   -> "original socket.create_connection"
      [] k = K_urlopen  -> "original urllib.request.urlopen"
      [] k = K_http     -> "original http.client.HTTPConnection.connect"
      [] k = K_ssl      -> "original ssl.SSLContext.wrap_socket"
      [] k = K_requests -> "original requests.Session.request"

\* the replacement functions of the module, by the key each looks up in _ORIG
HookKeys == { K_create, K_urlopen, K_http, K_requests }
Hook(k) ==
    CASE k = K_create   -> "_blocked_create_connection"
      [] k = K_urlopen  -> "_blocked_urlopen"
      [] k = K_http     -> "_blocked_http_connect"
      [] k = K_requests -> "_blocked_requests_request"
Hooks == { Hook(k) : k \in HookKeys }
KeyOfHook(f) == CHOOSE k \in HookKeys : Hook(k) = f

\* dict operations
EmptyDict == [k \in {} |-> ""]
setitem(d, k, v) == [x \in (DOMAIN d) \cup {k} |-> IF x = k THEN v ELSE d[x]]

\* _BLOCKED, _ORIG and the attributes, as one value
Patch == [blocked |-> _BLOCKED, orig |-> _ORIG, bound |-> bound]

(***************************************************************************)
(* What a call sees: "delegated" (an implementation that is not one of the *)
(* hooks ran, callee names it; its result or error is the caller's), or    *)
(* the exception raised before any implementation ran.                     *)
(***************************************************************************)
Delegated(f) == [outcome |-> "delegated", callee |-> f]
Raised(e)    == [outcome |-> e, callee |-> "none"]

\* _ORIG[k](...) inside hook k: a missing key is a KeyError; a saved handle
\* that is the hook itself calls itself until the interpreter gives up
call_saved(k, orig) ==
    IF k \notin DOMAIN orig THEN Raised("KeyError")
    ELSE IF orig[k] \in Hooks THEN Raised("RecursionError")
    ELSE Delegated(orig[k])

\* address = (host, port)
_blocked_create_connection(host, orig, whitelist) ==
    IF _host_allowed(host, whitelist)
    THEN call_saved(K_create, orig)
    ELSE Raised("NetworkBlockedError")

\* host = getattr(self, 'host', None)
_blocked_http_connect(host, orig, whitelist) ==
    IF _host_allowed(host, whitelist)
    THEN call_saved(K_http, orig)
    ELSE Raised("NetworkBlockedError")

\* url = args[0]: a str, or a Request object, for which host stays None
_blocked_urlopen(url, orig, whitelist) ==
    LET host == IF isinstance_str(url) THEN urlparse_hostname(url) ELSE None
    IN  IF _host_allowed(host, whitelist)
        THEN call_saved(K_urlopen, orig)
        ELSE Raised("NetworkBlockedError")

\* url: a str
_blocked_requests_request(url, orig, whitelist) ==
    LET host == urlparse_hostname(url)
    IN  IF _host_allowed(host, whitelist)
        THEN call_saved(K_requests, orig)
        ELSE Raised("NetworkBlockedError")

\* The optional timeout of create_connection as the caller wrote it ("omitted"
\* when left out) and as the implementation that finally runs receives it.
\* _blocked_create_connection declares timeout=None and passes it on
\* positionally; the other hooks pass *args and **kwargs on as they came.
Omitted == "omitted"
hook_passes(f, timeout) ==
    IF f = Hook(K_create) /\ timeout = Omitted THEN "None" ELSE timeout

\* calling hook function f
call_hook(f, arg, orig, whitelist) ==
    CASE f = Hook(K_create)   -> _blocked_create_connection(arg, orig, whitelist)
      [] f = Hook(K_http)     -> _blocked_http_connect(arg, orig, whitelist)
      [] f = Hook(K_urlopen)  -> _blocked_urlopen(arg, orig, whitelist)
      [] f = Hook(K_requests) -> _blocked_requests_request(arg, orig, whitelist)

\* the caller's code evaluates the attribute k and calls what it is bound to
attempt(k, arg, p, whitelist) ==
    IF p.bound[k] \in Hooks
    THEN call_hook(p.bound[k], arg, p.orig, whitelist)
    ELSE Delegated(p.bound[k])

(***************************************************************************)
(* block_network and allow_network, as functions of the patch state.       *)
(***************************************************************************)
\* a plausible slip: no `if _BLOCKED: return`
block_network_unguarded(p, req) ==
    LET saved == setitem(setitem(setitem(setitem(p.orig,
                     K_socket, p.bound[K_socket]),
                     K_create, p.bound[K_create]),
                     K_urlopen, p.bound[K_urlopen]),
                     K_http, p.bound[K_http])
        patched == [p.bound EXCEPT ![K_create]  = Hook(K_create),
                                   ![K_urlopen] = Hook(K_urlopen),
                                   ![K_http]    = Hook(K_http)]
    IN  IF req # "None"
        THEN [blocked |-> TRUE,
              orig    |-> setitem(saved, K_requests, patched[K_requests]),
              bound   |-> [patched EXCEPT ![K_requests] = Hook(K_requests)]]
        ELSE [blocked |-> TRUE, orig |-> saved, bound |-> patched]

block_network(p, req) ==
    IF p.blocked THEN p
    ELSE LET saved == setitem(setitem(setitem(setitem(p.orig,
                          K_socket, p.bound[K_socket]),
                          K_create, p.bound[K_create]),
                          K_urlopen, p.bound[K_urlopen]),
                          K_http, p.bound[K_http])
             patched == [p.bound EXCEPT ![K_create]  = Hook(K_create),
                                        ![K_urlopen] = Hook(K_urlopen),
                                        ![K_http]    = Hook(K_http)]
         IN  IF req # "None"
             THEN [blocked |-> TRUE,
                   orig    |-> setitem(saved, K_requests, patched[K_requests]),
                   bound   |-> [patched EXCEPT ![K_requests] = Hook(K_requests)]]
             ELSE [blocked |-> TRUE, orig |-> saved, bound |-> patched]

\* a plausible slip: the urlopen branch of the restore loop is missing
restored_keys_without_urlopen(req) ==
    { K_socket, K_create, K_http, K_ssl }
        \cup (IF req # "None" THEN { K_requests } ELSE {})

\* the branches of the restore loop: the keys it assigns back
restored_keys(req) ==
    { K_socket, K_create, K_urlopen, K_http, K_ssl }
        \cup (IF req # "None" THEN { K_requests } ELSE {})

\* a plausible slip: no _ORIG.clear()
allow_network_no_clear(p, req) ==
    IF ~p.blocked THEN p
    ELSE [blocked |-> FALSE,
          orig    |-> p.orig,
          bound   |-> [k \in DOMAIN p.bound |->
                          IF k \in DOMAIN p.orig /\ k \in restored_keys(req)
                          THEN p.orig[k] ELSE p.bound[k]]]

\* a plausible slip: the flag and the table are reset, nothing is assigned back
allow_network_flag_only(p, req) ==
    IF ~p.blocked THEN p
    ELSE [blocked |-> FALSE, orig |-> EmptyDict, bound |-> p.bound]

allow_network(p, req) ==
    IF ~p.blocked THEN p
    ELSE [blocked |-> FALSE,
          orig    |-> EmptyDict,
          bound   |-> [k \in DOMAIN p.bound |->
                          IF k \in DOMAIN p.orig /\ k \in restored_keys(req)
                          THEN p.orig[k] ELSE p.bound[k]]]

is_blocked(p) == p.blocked

(***************************************************************************)
(* allow_temporary: the generator up to its yield, and its finally.        *)
(***************************************************************************)
allow_temporary_enter(p, req) ==
    IF is_blocked(p) THEN allow_network(p, req) ELSE p

\* a plausible slip: no try/finally, so an exception in the body skips the restore
allow_temporary_exit_no_finally(how, was_blocked, p, req) ==
    IF was_blocked /\ how = "return" THEN block_network(p, req) ELSE p

\* a plausible slip: the exit re-enables whatever the entry saw
allow_temporary_exit_always(how, was_blocked, p, req) == block_network(p, req)

\* how: the body returned or raised; the finally clause runs on both
allow_temporary_exit(how, was_blocked, p, req) ==
    IF was_blocked THEN block_network(p, req) ELSE p

(***************************************************************************)
(* The observation left by an operation: its name, the attribute called    *)
(* and the argument (for a call), what the caller saw, a boolean argument  *)
(* or local (set_debug's enabled, allow_temporary's was_blocked, the       *)
(* result of _host_allowed) and the patch state the operation started      *)
(* from.  For block_network / allow_network that directly follows another  *)
(* of the two, prior is that one's name and starting patch state.  For the *)
(* exit of an allow_temporary block, clean tells that the with-body made   *)
(* no block_network / allow_network call of its own.                       *)
(***************************************************************************)
Toggles == { "block_network", "allow_network" }

NoPrior == [op |-> "-", pre |-> [blocked |-> FALSE, orig |-> EmptyDict, bound |-> EmptyDict]]

Observe(op, k, arg, res, flag) ==
    [op |-> op, key |-> k, arg |-> arg, outcome |-> res.outcome,
     callee |-> res.callee, flag |-> flag, pre |-> Patch,
     prior |-> IF op \in Toggles /\ obs.op \in Toggles
               THEN [op |-> obs.op, pre |-> obs.pre] ELSE NoPrior,
     clean |-> IF op = "exit" THEN touched < Len(frames) ELSE TRUE,
     given |-> "-", passed |-> "-"]

\* a call's observation: also the timeout as given and as the callee got it
ObserveCall(op, k, arg, res, flag, f, timeout) ==
    [Observe(op, k, arg, res, flag) EXCEPT
        !.given = timeout,
        !.passed = IF res.outcome # "delegated" THEN "-"
                   ELSE IF f \in Hooks THEN hook_passes(f, timeout) ELSE timeout]

NoResult == [outcome |-> "-", callee |-> "none"]

\* the arguments the attributes are called with
ConnectHosts == { example_com, notexample_com, loopback4 }
CallArgs(k) ==
    CASE k = K_socket   -> { None }
      [] k = K_create   -> ConnectHosts
      [] k = K_http     -> ConnectHosts
      [] k = K_requests -> ConnectHosts
      [] k = K_urlopen  -> ConnectHosts
                             \cup { with_port(API_Example, <<"8","4","4","3">>) }
                             \cup { Request(h) : h \in { example_com, loopback4 } }
CallKeys == { K_socket, K_create, K_urlopen, K_http, K_requests }
\* the arguments the hook functions are called with through a reference
CapturedArgs == { notexample_com, loopback4 }
\* the timeout argument: create_connection(address) or create_connection(address, 5.0)
Timeouts(k) == IF k = K_create THEN { Omitted, "5.0" } ELSE { Omitted }

(***************************************************************************)
(* The state once the module is imported: the globals of lines 45-48, and  *)
(* block_network() run unless PYTHON_BLACKBOX_NOAUTO is set.               *)
(***************************************************************************)
InitModule ==
    \E noauto \in BOOLEAN, req \in { "module", "None" } :
        LET p0 == [blocked |-> FALSE, orig |-> EmptyDict,
                   bound |-> [k \in Attributes(req) |-> Original(k)]]
            p  == IF noauto THEN p0 ELSE block_network(p0, req)
        IN  /\ requests = req
            /\ _BLOCKED = p.blocked
            /\ _ORIG = p.orig
            /\ bound = p.bound
            /\ _WHITELIST = {}
            /\ _DEBUG \in BOOLEAN
            /\ frames = <<>>
            /\ touched = 0
            /\ obs = [op |-> "import", key |-> "-", arg |-> <<>>, outcome |-> "-",
                      callee |-> "none", flag |-> noauto, pre |-> p0,
                      prior |-> NoPrior, clean |-> TRUE, given |-> "-", passed |-> "-"]

\* one thread: the program's main thread
Init ==
    /\ InitModule
    /\ threads = <<>>

SetPatch(p) ==
    /\ _BLOCKED' = p.blocked
    /\ _ORIG' = p.orig
    /\ bound' = p.bound

\* block_network() called by the program
BlockNetwork ==
    /\ SetPatch(block_network(Patch, requests))
    /\ touched' = Len(frames)
    /\ obs' = Observe("block_network", "-", <<>>, NoResult, FALSE)
    /\ UNCHANGED <<threads, _WHITELIST, _DEBUG, requests, frames>>

\* allow_network() called by the program
AllowNetwork ==
    /\ SetPatch(allow_network(Patch, requests))
    /\ touched' = Len(frames)
    /\ obs' = Observe("allow_network", "-", <<>>, NoResult, FALSE)
    /\ UNCHANGED <<threads, _WHITELIST, _DEBUG, requests, frames>>

\* with allow_temporary(): up to the yield
EnterTemporary ==
    /\ Len(frames) < MaxDepth
    /\ LET was_blocked == is_blocked(Patch)
       IN  /\ SetPatch(allow_temporary_enter(Patch, requests))
           /\ frames' = Append(frames, was_blocked)
           /\ obs' = Observe("enter", "-", <<>>, NoResult, was_blocked)
    /\ UNCHANGED <<threads, _WHITELIST, _DEBUG, requests, touched>>

\* the with-body ends, by falling off its end or by an exception: the finally
ExitTemporary ==
    /\ frames # <<>>
    /\ \E how \in { "return", "raise" } :
        LET was_blocked == frames[Len(frames)]
        IN  /\ SetPatch(allow_temporary_exit(how, was_blocked, Patch, requests))
            /\ frames' = SubSeq(frames, 1, Len(frames) - 1)
            /\ touched' = IF touched > Len(frames) - 1 THEN Len(frames) - 1 ELSE touched
            /\ obs' = Observe("exit", "-", <<>>, [outcome |-> how, callee |-> "none"],
                              was_blocked)
    /\ UNCHANGED <<threads, _WHITELIST, _DEBUG, requests>>

add_whitelist(whitelist, host_or_domain) == whitelist \cup { host_or_domain }

\* a plausible slip: the subdomains of the entry are removed with it
remove_whitelist_with_subdomains(whitelist, host_or_domain) ==
    { w \in whitelist :
        ~(w = host_or_domain \/ endswith(w, <<".">> \o host_or_domain)) }

\* set.discard: no error when the entry is absent
remove_whitelist(whitelist, host_or_domain) == whitelist \ { host_or_domain }

AddWhitelist ==
    /\ \E e \in Entries :
        /\ Cardinality(add_whitelist(_WHITELIST, e)) <= MaxWhitelist
        /\ _WHITELIST' = add_whitelist(_WHITELIST, e)
        /\ obs' = Observe("add_whitelist", "-", e, NoResult, FALSE)
    /\ UNCHANGED <<threads, _BLOCKED, _ORIG, _DEBUG, requests, bound, frames, touched>>

RemoveWhitelist ==
    /\ \E e \in Entries :
        /\ _WHITELIST' = remove_whitelist(_WHITELIST, e)
        /\ obs' = Observe("remove_whitelist", "-", e, NoResult, e \in _WHITELIST)
    /\ UNCHANGED <<threads, _BLOCKED, _ORIG, _DEBUG, requests, bound, frames, touched>>

SetDebug ==
    /\ \E enabled \in BOOLEAN :
        /\ _DEBUG' = enabled
        /\ obs' = Observe("set_debug", "-", <<>>, NoResult, enabled)
    /\ UNCHANGED <<threads, _BLOCKED, _ORIG, _WHITELIST, requests, bound, frames, touched>>

\* _host_allowed(host) called on its own
HostAllowed ==
    /\ \E host \in Hosts :
        obs' = Observe("_host_allowed", "-", host, NoResult,
                       _host_allowed(host, _WHITELIST))
    /\ UNCHANGED <<threads, _BLOCKED, _ORIG, _WHITELIST, _DEBUG, requests, bound, frames, touched>>

\* the program calls one of the networking attributes
Call ==
    /\ \E k \in CallKeys \cap DOMAIN bound :
        \E arg \in CallArgs(k), timeout \in Timeouts(k) :
            obs' = ObserveCall("call", k, arg, attempt(k, arg, Patch, _WHITELIST),
                               _BLOCKED, bound[k], timeout)
    /\ UNCHANGED <<threads, _BLOCKED, _ORIG, _WHITELIST, _DEBUG, requests, bound, frames, touched>>

\* the program calls a hook function through a reference of its own: one it
\* took from the patched attribute while enforcement was enabled (from socket
\* import create_connection), or the module-level function itself
CallCaptured ==
    /\ \E k \in HookKeys :
        \E arg \in CapturedArgs, timeout \in { Omitted } :
            obs' = ObserveCall("call_captured", k, arg,
                               call_hook(Hook(k), arg, _ORIG, _WHITELIST),
                               _BLOCKED, Hook(k), timeout)
    /\ UNCHANGED <<threads, _BLOCKED, _ORIG, _WHITELIST, _DEBUG, requests, bound, frames, touched>>

Next ==
    \/ BlockNetwork
    \/ AllowNetwork
    \/ EnterTemporary
    \/ ExitTemporary
    \/ AddWhitelist
    \/ RemoveWhitelist
    \/ SetDebug
    \/ HostAllowed
    \/ Call
    \/ CallCaptured

Spec == Init /\ [][Next]_vars

(***************************************************************************)
(* Properties.                                                             *)
(***************************************************************************)
\* the URL or host a call argument carries, whatever object carries it
destination(arg) ==
    IF Len(arg) > 0 /\ arg[1] = "Request" THEN Tail(arg) ELSE arg

\* the hooked attributes that exist in this interpreter
CheckedKeys == HookKeys \cap DOMAIN bound

\* C1: while enforcement is enabled and the whitelist is empty, a call
\* through a whitelist-checked hook to "example.com" raises
\* NetworkBlockedError and runs no original, and a call to "127.0.0.1" is
\* delegated to the saved original.
C1_EmptyWhitelistScenario ==
    (obs.op = "call" /\ obs.key \in HookKeys /\ _BLOCKED /\ _WHITELIST = {})
        => /\ destination(obs.arg) = example_com
                => obs.outcome = "NetworkBlockedError" /\ obs.callee = "none"
           /\ destination(obs.arg) = loopback4
                => obs.outcome = "delegated" /\ obs.callee = _ORIG[obs.key]

\* C2: _host_allowed returns True for "localhost", "127.0.0.1" and "::1"
\* under every whitelist.
C2_LoopbackAlwaysAllowed ==
    (obs.op = "_host_allowed" /\ obs.arg \in { localhost, loopback4, loopback6 })
        => obs.flag

\* C3: under the whitelist {w}, a host name h with h == w or h ending in
\* "." + w is allowed, and "notexample.com" is denied under {"example.com"}.
\* (Stated for non-empty h: _host_allowed returns False for "" at once.)
C3_ExactOrSubdomainAllowed ==
    (obs.op = "_host_allowed" /\ obs.arg # <<>>)
        => /\ \A w \in Entries :
                (_WHITELIST = {w}
                    /\ (obs.arg = w \/ endswith(obs.arg, <<".">> \o w)))
                => obs.flag
           /\ (obs.arg = notexample_com /\ _WHITELIST = {example_com})
                => ~obs.flag

\* C4: the decision of _host_allowed does not depend on the letter case of
\* the host or of the whitelist entries: it is the decision for the
\* lower-cased host under the lower-cased whitelist.
C4_CaseInsensitive ==
    obs.op = "_host_allowed"
        => obs.flag = _host_allowed(lower(obs.arg), { lower(w) : w \in _WHITELIST })

\* C5, as claimed: for every str h without a colon and every port p, the
\* decision for h + ":" + p is the decision for h.
C5_PortIgnored ==
    \A h \in PlainHosts, p \in Ports :
        (obs.op = "_host_allowed" /\ obs.arg = with_port(h, p))
            => obs.flag = _host_allowed(h, _WHITELIST)

\* C5, amended: for every non-empty host name h without a colon and every
\* port p, the decision for h + ":" + p is the decision for h.
C5_PortIgnoredNonEmpty ==
    \A h \in PlainHosts \ { empty_str }, p \in Ports :
        (obs.op = "_host_allowed" /\ obs.arg = with_port(h, p))
            => obs.flag = _host_allowed(h, _WHITELIST)

C5_Witness ==
    /\ obs.op = "_host_allowed"
    /\ obs.arg = with_port(example_com, <<"8","4","4","3">>)
    /\ _WHITELIST = { example_com }
    /\ obs.flag

\* C6: while enforcement stays enabled, right after add_whitelist(w) a call
\* to w or to a subdomain of w through any hook is delegated to the
\* original, and right after a remove_whitelist(w) that leaves the whitelist
\* empty the same call raises NetworkBlockedError.
C6_WhitelistTakesEffect ==
    \A k \in CheckedKeys :
        \A host \in { obs.arg, <<"a","p","i",".">> \o obs.arg } :
            /\ (obs.op = "add_whitelist" /\ obs.arg # <<>> /\ _BLOCKED)
                 => attempt(k, host, Patch, _WHITELIST) = Delegated(Original(k))
            /\ (obs.op = "remove_whitelist" /\ obs.arg # <<>> /\ _BLOCKED
                    /\ _WHITELIST = {})
                 => attempt(k, host, Patch, _WHITELIST) = Raised("NetworkBlockedError")

\* C7: a block_network() that directly follows a block_network() changes
\* neither _BLOCKED nor _ORIG nor any patched attribute, and likewise for
\* an allow_network() that directly follows an allow_network().
C7_Idempotent ==
    (obs.op \in Toggles /\ obs.prior.op = obs.op) => Patch = obs.pre

C7_Witness ==
    /\ obs.op = "block_network"
    /\ obs.prior.op = "block_network"
    /\ ~obs.prior.pre.blocked
    /\ _ORIG[K_urlopen] = Original(K_urlopen)

\* C8: block_network() from the disabled state directly followed by
\* allow_network() leaves every attribute bound to the handle it had before
\* the block_network(), and a call to a host that is not whitelisted then
\* reaches that handle.
C8_RoundTrip ==
    (obs.op = "allow_network" /\ obs.prior.op = "block_network"
        /\ ~obs.prior.pre.blocked)
        => /\ bound = obs.prior.pre.bound
           /\ \A k \in CallKeys \cap DOMAIN bound :
                  \A arg \in CallArgs(k) :
                      attempt(k, arg, Patch, _WHITELIST)
                          = Delegated(obs.prior.pre.bound[k])

C8_Witness ==
    /\ obs.op = "allow_network"
    /\ obs.prior.op = "block_network"
    /\ ~obs.prior.pre.blocked
    /\ obs.pre.bound[K_urlopen] = Hook(K_urlopen)
    /\ _WHITELIST = {}

\* an open allow_temporary block that was entered while enforcement was
\* enabled and whose body has called neither block_network nor allow_network
InTemporaryAllow ==
    \E i \in 1..Len(frames) : frames[i] /\ i > touched

\* C9: inside an allow_temporary block entered while enforcement was
\* enabled, every call, to any host, runs the original implementation and
\* is not denied.
C9_InsideBlockDelegated ==
    (obs.op = "call" /\ InTemporaryAllow)
        => obs.outcome = "delegated" /\ obs.callee = Original(obs.key)

C9_Witness ==
    /\ obs.op = "call"
    /\ InTemporaryAllow
    /\ obs.key = K_create
    /\ obs.arg = notexample_com
    /\ _WHITELIST = {}
    /\ obs.outcome = "delegated"

\* C10: when an allow_temporary block ends, by return or by an exception,
\* enforcement is what it was on entry: enabled again, with a call to a
\* host that is not whitelisted raising NetworkBlockedError, or still
\* disabled.
C10_ExitRestores ==
    (obs.op = "exit" /\ obs.clean)
        => /\ _BLOCKED = obs.flag
           /\ obs.flag =>
                \A k \in CheckedKeys :
                    attempt(k, notexample_com, Patch, _WHITELIST)
                        = Raised("NetworkBlockedError")

C10_Witness ==
    /\ obs.op = "exit"
    /\ obs.outcome = "raise"
    /\ obs.clean
    /\ obs.flag
    /\ _BLOCKED
    /\ bound[K_http] = Hook(K_http)

\* C11: while enforcement is disabled, a hook function that is called, also
\* through a reference taken while enforcement was enabled, runs the original
\* of its attribute and raises nothing of its own, whatever the host.
C11_DisabledHookPassesThrough ==
    (obs.op \in { "call", "call_captured" } /\ obs.key \in HookKeys /\ ~_BLOCKED)
        => obs.outcome = "delegated" /\ obs.callee = Original(obs.key)

\* C12: after block_network() every attribute whose original was saved in
\* _ORIG is bound to a replacement, and constructing a socket.socket while
\* enforcement is enabled raises NetworkBlockedError.
C12_EverySavedAttributeHooked ==
    (obs.op = "block_network" /\ _BLOCKED)
        => /\ \A k \in DOMAIN _ORIG : bound[k] # _ORIG[k]
           /\ attempt(K_socket, None, Patch, _WHITELIST) = Raised("NetworkBlockedError")

\* C13: between operations, _ORIG is non-empty exactly when _BLOCKED is true.
C13_OrigNonEmptyIffBlocked ==
    (DOMAIN _ORIG # {}) <=> _BLOCKED

C13_Witness ==
    /\ obs.op = "allow_network"
    /\ obs.pre.blocked
    /\ ~_BLOCKED
    /\ DOMAIN _ORIG = {}
    /\ frames # <<>>

\* C17: in one thread, inside an allow_temporary block entered while
\* enforcement was enabled, a nested allow_temporary finds enforcement off
\* and changes nothing when entered or left; enforcement is off from the
\* outermost entry to the outermost exit and on after the outermost exit.
C17_NestedGuardsAreNoOps ==
    /\ InTemporaryAllow => ~_BLOCKED /\ \A k \in DOMAIN bound : bound[k] = Original(k)
    /\ (obs.op = "enter"
            /\ \E i \in 1..(Len(frames) - 1) : frames[i] /\ i > touched)
         => ~obs.flag /\ Patch = obs.pre
    /\ (obs.op = "exit" /\ InTemporaryAllow)
         => ~obs.flag /\ Patch = obs.pre
    /\ (obs.op = "exit" /\ frames = <<>> /\ obs.clean /\ obs.flag)
         => _BLOCKED

C17_Witness ==
    /\ obs.op = "exit"
    /\ obs.outcome = "raise"
    /\ ~obs.flag
    /\ InTemporaryAllow
    /\ frames[1]
    /\ ~_BLOCKED

\* C18: block_network, allow_network and allow_temporary leave _WHITELIST
\* and _DEBUG as they were; add_whitelist, remove_whitelist and set_debug
\* leave _BLOCKED, _ORIG and the patched attributes as they were;
\* remove_whitelist of an absent entry changes nothing and raises nothing.
C18_FrameConditions ==
    [][ /\ obs'.op \in { "block_network", "allow_network", "enter", "exit" }
            => UNCHANGED <<_WHITELIST, _DEBUG>>
        /\ obs'.op \in { "add_whitelist", "remove_whitelist", "set_debug" }
            => UNCHANGED <<_BLOCKED, _ORIG, bound>>
        /\ (obs'.op = "remove_whitelist" /\ obs'.arg \notin _WHITELIST)
            => UNCHANGED _WHITELIST /\ obs'.outcome = "-"
      ]_vars

C18_Witness ==
    /\ obs.op = "remove_whitelist"
    /\ obs.arg = example_com
    /\ ~obs.flag
    /\ _WHITELIST = { api_example }
    /\ _BLOCKED

\* C19: an allowed call through a hook runs the saved original with the
\* arguments as the caller gave them: an optional argument the caller left
\* out is left out.
C19_ArgumentsPassedUnchanged ==
    (obs.op = "call" /\ obs.key \in HookKeys /\ _BLOCKED /\ obs.outcome = "delegated")
        => obs.callee = _ORIG[obs.key] /\ obs.passed = obs.given

\* the attributes block_network rebinds in every interpreter
AlwaysHooked == { K_create, K_urlopen, K_http }

\* C20: between operations, is_blocked() is true exactly when
\* socket.create_connection, urllib.request.urlopen and
\* HTTPConnection.connect are bound to the hooks: true with all three
\* hooked, false with none of them hooked.
C20_FlagMatchesHooks ==
    /\ is_blocked(Patch) => \A k \in AlwaysHooked : bound[k] = Hook(k)
    /\ ~is_blocked(Patch) => \A k \in AlwaysHooked : bound[k] \notin Hooks

C20_Witness ==
    /\ obs.op = "exit"
    /\ obs.flag
    /\ is_blocked(Patch)
    /\ \A k \in AlwaysHooked : bound[k] = Hook(k)
    /\ _WHITELIST # {}

(***************************************************************************)
(* Two threads.  The module takes no lock, so a second thread may run      *)
(* between any two statements of block_network, allow_network and          *)
(* allow_temporary.  Each step below is one statement of the source; the   *)
(* labels are its line numbers.                                            *)
(***************************************************************************)
Threads == { "T1", "T2" }

\* a thread that has not called anything yet; snap is the list
\* allow_network iterates over, ret is where the running function returns to
IdleThread ==
    [pc |-> "idle", ret |-> "done", was_blocked |-> FALSE, snap |-> <<>>,
     called |-> FALSE]

\* the order dict items come in: the order block_network inserts the keys
KeyOrder == <<K_socket, K_create, K_urlopen, K_http, K_requests>>

\* list(_ORIG.items())
items(orig) ==
    LET keys == SelectSeq(KeyOrder, LAMBDA k : k \in DOMAIN orig)
    IN  [i \in 1..Len(keys) |-> <<keys[i], orig[keys[i]]>>]

\* the key a saving statement of block_network stores
BlockSaveKey(pc) ==
    CASE pc = "b139" -> K_socket
      [] pc = "b140" -> K_create
      [] pc = "b141" -> K_urlopen
      [] pc = "b142" -> K_http
      [] pc = "b153" -> K_requests

\* the attribute a patching statement of block_network rebinds
BlockPatchKey(pc) ==
    CASE pc = "b145" -> K_create
      [] pc = "b148" -> K_urlopen
      [] pc = "b149" -> K_http
      [] pc = "b154" -> K_requests

\* the statement after a statement of block_network
BlockNextPc(pc, req) ==
    CASE pc = "b139" -> "b140"
      [] pc = "b140" -> "b141"
      [] pc = "b141" -> "b142"
      [] pc = "b142" -> "b145"
      [] pc = "b145" -> "b148"
      [] pc = "b148" -> "b149"
      [] pc = "b149" -> IF req # "None" THEN "b153" ELSE "b156"
      [] pc = "b153" -> "b154"
      [] pc = "b154" -> "b156"

\* a finally clause that runs only when the body returns normally
reblock_on_return_only(how, was_blocked) == was_blocked /\ how = "return"

\* finally: if was_blocked: block_network()
finally_reblocks(how, was_blocked) == was_blocked

Goto(t, pc) == threads' = [threads EXCEPT ![t].pc = pc]
Shared == <<_BLOCKED, _ORIG, bound>>
Fixed == <<_WHITELIST, _DEBUG, requests, frames, touched>>

\* a thread calls block_network()
StartBlock ==
    /\ \E t \in Threads :
        /\ threads[t].pc = "idle"
        /\ threads' = [threads EXCEPT ![t].pc = "b136", ![t].ret = "done"]
    /\ UNCHANGED <<Shared, Fixed, obs>>

\* a thread calls allow_network()
StartAllow ==
    /\ \E t \in Threads :
        /\ threads[t].pc = "idle"
        /\ threads' = [threads EXCEPT ![t].pc = "a162", ![t].ret = "done"]
    /\ UNCHANGED <<Shared, Fixed, obs>>

\* a thread enters with allow_temporary():
StartTemporary ==
    /\ \E t \in Threads :
        /\ threads[t].pc = "idle"
        /\ Goto(t, "t191")
    /\ UNCHANGED <<Shared, Fixed, obs>>

\* was_blocked = is_blocked(); if was_blocked: allow_network()
TemporaryRead ==
    /\ \E t \in Threads :
        /\ threads[t].pc = "t191"
        /\ threads' = [threads EXCEPT
                          ![t].was_blocked = is_blocked(Patch),
                          ![t].pc = IF is_blocked(Patch) THEN "a162" ELSE "body",
                          ![t].ret = "body"]
    /\ UNCHANGED <<Shared, Fixed, obs>>

\* inside the with block the thread makes a connection attempt
BodyCall ==
    /\ \E t \in Threads :
        /\ threads[t].pc = "body"
        /\ ~threads[t].called
        /\ threads' = [threads EXCEPT ![t].called = TRUE]
        /\ \E arg \in CapturedArgs :
            obs' = ObserveCall("call", K_create, arg,
                               attempt(K_create, arg, Patch, _WHITELIST),
                               _BLOCKED, bound[K_create], Omitted)
    /\ UNCHANGED <<Shared, Fixed>>

\* the with block ends, by return or by exception: the finally clause
BodyEnd ==
    /\ \E t \in Threads, how \in { "return", "raise" } :
        /\ threads[t].pc = "body"
        /\ threads' = [threads EXCEPT
                          ![t].pc = IF finally_reblocks(how, threads[t].was_blocked)
                                    THEN "b136" ELSE "done",
                          ![t].ret = "done"]
    /\ UNCHANGED <<Shared, Fixed, obs>>

\* block_network, line 136: if _BLOCKED: return
BlockCheck ==
    /\ \E t \in Threads :
        /\ threads[t].pc = "b136"
        /\ Goto(t, IF _BLOCKED THEN threads[t].ret ELSE "b139")
    /\ UNCHANGED <<Shared, Fixed, obs>>

\* block_network, lines 139-142 and 153: _ORIG[key] = the attribute as bound now
BlockSave ==
    /\ \E t \in Threads :
        /\ threads[t].pc \in { "b139", "b140", "b141", "b142", "b153" }
        /\ _ORIG' = setitem(_ORIG, BlockSaveKey(threads[t].pc),
                            bound[BlockSaveKey(threads[t].pc)])
        /\ Goto(t, BlockNextPc(threads[t].pc, requests))
    /\ UNCHANGED <<_BLOCKED, bound, Fixed, obs>>

\* block_network, lines 145, 148, 149 and 154: the attribute = its hook
BlockPatch ==
    /\ \E t \in Threads :
        /\ threads[t].pc \in { "b145", "b148", "b149", "b154" }
        /\ bound' = [bound EXCEPT ![BlockPatchKey(threads[t].pc)] =
                                      Hook(BlockPatchKey(threads[t].pc))]
        /\ Goto(t, BlockNextPc(threads[t].pc, requests))
    /\ UNCHANGED <<_BLOCKED, _ORIG, Fixed, obs>>

\* block_network, line 156: _BLOCKED = True
BlockSetFlag ==
    /\ \E t \in Threads :
        /\ threads[t].pc = "b156"
        /\ _BLOCKED' = TRUE
        /\ Goto(t, threads[t].ret)
    /\ UNCHANGED <<_ORIG, bound, Fixed, obs>>

\* allow_network, line 162: if not _BLOCKED: return
AllowCheck ==
    /\ \E t \in Threads :
        /\ threads[t].pc = "a162"
        /\ Goto(t, IF ~_BLOCKED THEN threads[t].ret ELSE "a165")
    /\ UNCHANGED <<Shared, Fixed, obs>>

\* allow_network, line 165: for k, v in list(_ORIG.items())
AllowSnapshot ==
    /\ \E t \in Threads :
        /\ threads[t].pc = "a165"
        /\ threads' = [threads EXCEPT
                          ![t].snap = items(_ORIG),
                          ![t].pc = IF items(_ORIG) = <<>> THEN "a179" ELSE "a166"]
    /\ UNCHANGED <<Shared, Fixed, obs>>

\* allow_network, lines 166-177: one turn of the loop
AllowRestore ==
    /\ \E t \in Threads :
        /\ threads[t].pc = "a166"
        /\ LET k == Head(threads[t].snap)[1]
               v == Head(threads[t].snap)[2]
           IN  bound' = IF k \in restored_keys(requests)
                        THEN [bound EXCEPT ![k] = v] ELSE bound
        /\ threads' = [threads EXCEPT
                          ![t].snap = Tail(@),
                          ![t].pc = IF Len(threads[t].snap) = 1 THEN "a179" ELSE "a166"]
    /\ UNCHANGED <<_BLOCKED, _ORIG, Fixed, obs>>

\* allow_network, line 179: _ORIG.clear()
AllowClear ==
    /\ \E t \in Threads :
        /\ threads[t].pc = "a179"
        /\ _ORIG' = EmptyDict
        /\ Goto(t, "a180")
    /\ UNCHANGED <<_BLOCKED, bound, Fixed, obs>>

\* allow_network, line 180: _BLOCKED = False
AllowSetFlag ==
    /\ \E t \in Threads :
        /\ threads[t].pc = "a180"
        /\ _BLOCKED' = FALSE
        /\ Goto(t, threads[t].ret)
    /\ UNCHANGED <<_ORIG, bound, Fixed, obs>>

\* the statements of the three functions, whoever runs them
Statements ==
    \/ TemporaryRead
    \/ BodyCall
    \/ BodyEnd
    \/ BlockCheck
    \/ BlockSave
    \/ BlockPatch
    \/ BlockSetFlag
    \/ AllowCheck
    \/ AllowSnapshot
    \/ AllowRestore
    \/ AllowClear
    \/ AllowSetFlag

\* the module imported, and two threads about to start
InitThreads ==
    /\ InitModule
    /\ _DEBUG = FALSE
    /\ threads = [t \in Threads |-> IdleThread]

\* each thread calls one of block_network, allow_network, allow_temporary
NextThreads ==
    \/ StartBlock
    \/ StartAllow
    \/ StartTemporary
    \/ Statements

SpecThreads == InitThreads /\ [][NextThreads]_vars

\* enforcement enabled, and each thread runs one allow_temporary block
InitTemporary ==
    /\ InitThreads
    /\ _BLOCKED

NextTemporary ==
    \/ StartTemporary
    \/ Statements

\* every thread keeps being scheduled, and every with block ends
SpecTemporary ==
    InitTemporary /\ [][NextTemporary]_vars /\ WF_vars(NextTemporary)

\* C14: with two threads calling block_network, allow_network or
\* allow_temporary, whatever the interleaving of their statements, no entry
\* of _ORIG is ever one of the module's own hooks.
C14_NoHookSavedAsOriginal ==
    \A k \in DOMAIN _ORIG : _ORIG[k] \notin Hooks

\* C15: with two threads in overlapping allow_temporary blocks, a connection
\* attempt a thread makes inside its own block is never denied: it reaches
\* the original function.
C15_OwnBlockNeverDenied ==
    obs.op = "call" => obs.outcome = "delegated" /\ obs.callee = Original(obs.key)

AllExited == \A t \in Threads : threads[t].pc = "done"

\* C16: with enforcement enabled at the start and allow_temporary blocks
\* on two threads, under every interleaving all blocks exit and from then
\* on is_blocked() is true.
C16_EnabledAfterAllExit == <>[](AllExited /\ is_blocked(Patch))

C16_Witness ==
    /\ AllExited
    /\ is_blocked(Patch)
    /\ \E t \in Threads : threads[t].was_blocked
    /\ \E t \in Threads : ~threads[t].was_blocked

====
